---------------------------- MODULE Spec2Model ----------------------------
(***************************************************************************)
(* Model of tensorly/contrib/mps_decomposition_cross.py: the TT-cross      *)
(* decomposition matrix_product_state_cross, its two sweep steps           *)
(* left_right_ttcross_step / right_left_ttcross_step and the greedy        *)
(* maxvol row selection.                                                   *)
(*                                                                         *)
(* Python positions are 0-based; TLA+ sequences are 1-based.  Coordinates  *)
(* and row numbers stored in the state keep their 0-based Python values;   *)
(* the accessors rk, nn, ... translate positions.                          *)
(*                                                                         *)
(* Numbers: maxvol works on floats.  The model computes the same formulas  *)
(* exactly over the rationals (pairs <<num, den>>), on input matrices for  *)
(* which every square root the code takes is rational (SqrtClosed).        *)
(***************************************************************************)
EXTENDS Integers, Sequences, FiniteSets, TLC

VARIABLES
    \* ---- matrix_product_state_cross ----
    pc,            \* position in matrix_product_state_cross
    n,             \* tl.shape(input_tensor)
    rank_arg,      \* the rank argument as passed by the caller
    rank,          \* the local list rank (after broadcast / list(rank) / lines 95-103)
    printed,       \* which of the two boundary messages were printed
    col_idx,       \* list col_idx; <<>> stands for None
    row_idx,       \* list row_idx
    k_col_idx,     \* loop variable of the initial sampling
    newidx,        \* the last sampled candidate
    factor_new,    \* list factor_new: per core [shape, data]; shape <<>> stands for None
    n_iter_max,    \* argument n_iter_max
    iter,          \* Python variable iter
    started,       \* number of iterations the for loop has started
    loop_exit,     \* "none" | "break" | "exhausted"
    cmp,           \* error compared with threshold: "lt" | "eq" | "gt"
    k,             \* sweep loop variable
    outcome,       \* "" while running, then "returned" or the exception raised
    message,       \* the two numbers formatted into the length-mismatch message
    \* ---- maxvol ----
    mpc,           \* position in maxvol: "off" | "loop" | "inverse" | "done"
    A,             \* argument A (integer matrix, sequence of rows)
    A_new,         \* working matrix (rational entries)
    rest_of_rows,  \* original numbers of the rows still in A_new
    sel_idx,       \* local row_idx of maxvol (r slots, zeros until assigned)
    i,             \* number of rows selected so far
    picked,        \* working row selected in the last round (before deflation)
    mv_result      \* what maxvol returned or raised

vars == <<pc, n, rank_arg, rank, printed, col_idx, row_idx, k_col_idx, newidx,
          factor_new, n_iter_max, iter, started, loop_exit, cmp, k, outcome,
          message, mpc, A, A_new, rest_of_rows, sel_idx, i, picked, mv_result>>

mpsVars == <<pc, n, rank_arg, rank, printed, col_idx, row_idx, k_col_idx, newidx,
             factor_new, n_iter_max, iter, started, loop_exit, cmp, k, outcome,
             message>>

mvVars == <<mpc, A, A_new, rest_of_rows, sel_idx, i, picked, mv_result>>

----------------------------------------------------------------------------
(* Exact rational arithmetic.                                              *)

Abs(x) == IF x < 0 THEN -x ELSE x

RECURSIVE GCD(_, _)
GCD(a, b) == IF b = 0 THEN a ELSE GCD(b, a % b)

\* the rational p/q (q # 0) in lowest terms with a positive denominator
Rat(p, q) ==
    LET s == IF q < 0 THEN -1 ELSE 1
        g == GCD(Abs(p), Abs(q))
    IN  <<(s * p) \div g, (s * q) \div g>>

RInt(x) == <<x, 1>>
RAdd(x, y) == Rat(x[1] * y[2] + y[1] * x[2], x[2] * y[2])
RSub(x, y) == Rat(x[1] * y[2] - y[1] * x[2], x[2] * y[2])
RMul(x, y) == Rat(x[1] * y[1], x[2] * y[2])
RDiv(x, y) == Rat(x[1] * y[2], x[2] * y[1])
RLess(x, y) == x[1] * y[2] < y[1] * x[2]
RIsZero(x) == x[1] = 0

\* floor of the square root of a natural number, by bisection on lo..hi
RECURSIVE ISqrtIn(_, _, _)
ISqrtIn(x, lo, hi) ==
    IF lo >= hi THEN lo
    ELSE LET mid == (lo + hi + 1) \div 2
         IN  IF mid * mid <= x THEN ISqrtIn(x, mid, hi) ELSE ISqrtIn(x, lo, mid - 1)

ISqrt(x) == ISqrtIn(x, 0, IF x < 46340 THEN x ELSE 46340)
IsSquare(x) == ISqrt(x) * ISqrt(x) = x

\* tl.sqrt on a non-negative rational whose root is rational
RSqrt(x) == <<ISqrt(x[1]), ISqrt(x[2])>>

RECURSIVE SeqSum(_)
SeqSum(s) == IF s = <<>> THEN 0 ELSE Head(s) + SeqSum(Tail(s))

RECURSIVE RSeqSum(_)
RSeqSum(s) == IF s = <<>> THEN RInt(0) ELSE RAdd(Head(s), RSeqSum(Tail(s)))

RECURSIVE Prod(_)
Prod(s) == IF s = <<>> THEN 1 ELSE Head(s) * Prod(Tail(s))

\* the subsequence of s at the positions where keep is TRUE
RECURSIVE Compress(_, _)
Compress(s, keep) ==
    IF s = <<>> THEN <<>>
    ELSE (IF Head(keep) THEN <<Head(s)>> ELSE <<>>) \o Compress(Tail(s), Tail(keep))

Range(s) == {s[j] : j \in DOMAIN s}

----------------------------------------------------------------------------
(* Integer matrices: determinant, rank, inverse.                           *)

DropAt(s, j) == [m \in 1..(Len(s) - 1) |-> IF m < j THEN s[m] ELSE s[m + 1]]

\* determinant of a square integer matrix by expansion along the first row
RECURSIVE Det(_)
Det(M) ==
    IF Len(M) = 0 THEN 1
    ELSE IF Len(M) = 1 THEN M[1][1]
    ELSE SeqSum([j \in 1..Len(M) |->
            (IF j % 2 = 1 THEN 1 ELSE -1) * M[1][j]
              * Det([m \in 1..(Len(M) - 1) |-> DropAt(M[m + 1], j)])])

Minor(M, a, b) == [m \in 1..(Len(M) - 1) |-> DropAt(DropAt(M, a)[m], b)]

\* tl.inverse of a nonsingular square integer matrix (adjugate over determinant)
Inverse(M) ==
    [a \in 1..Len(M) |-> [b \in 1..Len(M) |->
        Rat((IF (a + b) % 2 = 0 THEN 1 ELSE -1) * Det(Minor(M, b, a)), Det(M))]]

\* A has full column rank: some choice of r of its rows is nonsingular
FullColumnRank(M) ==
    LET r == Len(M[1])
    IN  \E f \in [1..r -> 1..Len(M)] : Det([a \in 1..r |-> M[f[a]]]) # 0

----------------------------------------------------------------------------
(* maxvol (lines 338-416).                                                 *)

ToRat(M) == [a \in 1..Len(M) |-> [b \in 1..Len(M[a]) |-> RInt(M[a][b])]]

IntSumSq(row) == SeqSum([b \in 1..Len(row) |-> row[b] * row[b]])

\* every square root maxvol takes on M is rational: the squared norms of any
\* two nonzero rows multiply to a perfect square
SqrtClosed(M) ==
    \A a, b \in 1..Len(M) : IsSquare(IntSumSq(M[a]) * IntSumSq(M[b]))

RDot(u, v) == RSeqSum([b \in 1..Len(u) |-> RMul(u[b], v[b])])

\* line 383: rows_norms = tl.sum(A_new ** 2, axis=1)
rows_norms(W) == [a \in 1..Len(W) |-> RDot(W[a], W[a])]

\* tl.argmax: position (1-based) of the first maximal entry
ArgMax(v) ==
    CHOOSE a \in 1..Len(v) :
        /\ \A b \in 1..Len(v) : ~RLess(v[a], v[b])
        /\ \A b \in 1..(a - 1) : RLess(v[b], v[a])

\* line 397: tl.dot(A_new, max_row) / tl.sqrt(rows_norms * rows_norms[max_row_idx])
Projection(W, norms, max_row, max_row_idx) ==
    [a \in 1..Len(W) |->
        RDiv(RDot(W[a], max_row), RSqrt(RMul(norms[a], norms[max_row_idx])))]

\* line 400: A_new - A_new * projection.reshape(A_new.shape[0], 1)
Deflate(W, projection) ==
    [a \in 1..Len(W) |-> [b \in 1..Len(W[a]) |->
        RSub(W[a][b], RMul(W[a][b], projection[a]))]]

\* line 386: any(rows_norms == 0)
HasZeroRow(W) == \E a \in 1..Len(W) : RIsZero(RDot(W[a], W[a]))

\* rows_norms != 0
NonZeroMask(W) == [a \in 1..Len(W) |-> ~RIsZero(RDot(W[a], W[a]))]

\* the state of the while loop: [A_new, rest_of_rows, row_idx, i, picked]
MaxvolStart(M) ==
    [A_new        |-> ToRat(M),
     rest_of_rows |-> [a \in 1..Len(M) |-> a - 1],
     row_idx      |-> [a \in 1..Len(M[1]) |-> 0],
     i            |-> 0,
     picked       |-> <<>>]

\* lines 386-389: delete the rows of zero norm and retry
DropZeroRows(st) ==
    [st EXCEPT !.rest_of_rows = Compress(st.rest_of_rows, NonZeroMask(st.A_new)),
               !.A_new        = Compress(st.A_new, NonZeroMask(st.A_new))]

\* lines 391-410: select the row of largest norm, deflate, delete it
SelectRow(M, st) ==
    LET norms       == rows_norms(st.A_new)
        max_row_idx == ArgMax(norms)
        max_row     == [b \in 1..Len(M[1]) |-> RInt(M[st.rest_of_rows[max_row_idx] + 1][b])]
        projection  == Projection(st.A_new, norms, max_row, max_row_idx)
        deflated    == Deflate(st.A_new, projection)
        mask        == [a \in 1..Len(st.A_new) |-> a # max_row_idx]
    IN  [A_new        |-> Compress(deflated, mask),
         rest_of_rows |-> Compress(st.rest_of_rows, mask),
         row_idx      |-> [st.row_idx EXCEPT ![st.i + 1] = st.rest_of_rows[max_row_idx]],
         i            |-> st.i + 1,
         picked       |-> st.A_new[max_row_idx]]

\* lines 412-416: invert A[row_idx, :]; tl.inverse raises LinAlgError on a
\* singular matrix
InvertSelected(M, st) ==
    LET sub == [a \in 1..Len(st.row_idx) |-> M[st.row_idx[a] + 1]]
    IN  IF Det(sub) = 0
        THEN [status |-> "LinAlgError", row_idx |-> <<>>, inverse |-> <<>>]
        ELSE [status |-> "ok", row_idx |-> st.row_idx, inverse |-> Inverse(sub)]

\* line 392 on an empty A_new: argmax of an empty sequence raises ValueError
ArgmaxOfEmpty == [status |-> "ValueError", row_idx |-> <<>>, inverse |-> <<>>]

RECURSIVE MaxvolLoop(_, _)
MaxvolLoop(M, st) ==
    IF st.i >= Len(M[1]) THEN InvertSelected(M, st)
    ELSE IF HasZeroRow(st.A_new) THEN MaxvolLoop(M, DropZeroRows(st))
    ELSE IF Len(st.A_new) = 0 THEN ArgmaxOfEmpty
    ELSE MaxvolLoop(M, SelectRow(M, st))

\* maxvol(A): what the call returns or raises
maxvol(M) == MaxvolLoop(M, MaxvolStart(M))

----------------------------------------------------------------------------
(* maxvol as a state machine, one action per pass of the while loop.       *)

MaxEntry == 2
MaxRows  == 3
MaxCols  == 2

\* the input matrices of the maxvol specification: nr x r integer matrices,
\* nr >= r, entries in -MaxEntry..MaxEntry, closed under the square roots
Matrices(nr, r) ==
    {M \in [1..nr -> [1..r -> (-MaxEntry)..MaxEntry]] : SqrtClosed(M)}

LoopState ==
    [A_new |-> A_new, rest_of_rows |-> rest_of_rows, row_idx |-> sel_idx,
     i |-> i, picked |-> picked]

SetLoopState(st) ==
    /\ A_new' = st.A_new
    /\ rest_of_rows' = st.rest_of_rows
    /\ sel_idx' = st.row_idx
    /\ i' = st.i
    /\ picked' = st.picked

MpsIdle ==
    /\ pc = "off" /\ n = <<>> /\ rank_arg = [kind |-> "int", int |-> 1, list |-> <<>>]
    /\ rank = <<>> /\ printed = {} /\ col_idx = <<>> /\ row_idx = <<>>
    /\ k_col_idx = 0 /\ newidx = <<>> /\ factor_new = <<>> /\ n_iter_max = 0
    /\ iter = 0 /\ started = 0 /\ loop_exit = "none" /\ cmp = "gt" /\ k = 0
    /\ outcome = "" /\ message = <<>>

MaxvolInit ==
    /\ MpsIdle
    /\ mpc = "loop"
    /\ \E r \in 1..MaxCols : \E nr \in r..MaxRows : A \in Matrices(nr, r)
    /\ A_new = MaxvolStart(A).A_new
    /\ rest_of_rows = MaxvolStart(A).rest_of_rows
    /\ sel_idx = MaxvolStart(A).row_idx
    /\ i = 0
    /\ picked = <<>>
    /\ mv_result = [status |-> "running", row_idx |-> <<>>, inverse |-> <<>>]

MvDropZeroRows ==
    /\ mpc = "loop" /\ i < Len(A[1]) /\ HasZeroRow(A_new)
    /\ SetLoopState(DropZeroRows(LoopState))
    /\ UNCHANGED <<mpc, A, mv_result>>
    /\ UNCHANGED mpsVars

MvSelectRow ==
    /\ mpc = "loop" /\ i < Len(A[1]) /\ ~HasZeroRow(A_new) /\ Len(A_new) > 0
    /\ SetLoopState(SelectRow(A, LoopState))
    /\ UNCHANGED <<mpc, A, mv_result>>
    /\ UNCHANGED mpsVars

MvArgmaxFails ==
    /\ mpc = "loop" /\ i < Len(A[1]) /\ Len(A_new) = 0
    /\ mpc' = "done"
    /\ mv_result' = ArgmaxOfEmpty
    /\ UNCHANGED <<A, A_new, rest_of_rows, sel_idx, i, picked>>
    /\ UNCHANGED mpsVars

MvInvert ==
    /\ mpc = "loop" /\ i >= Len(A[1])
    /\ mpc' = "done"
    /\ mv_result' = InvertSelected(A, LoopState)
    /\ UNCHANGED <<A, A_new, rest_of_rows, sel_idx, i, picked>>
    /\ UNCHANGED mpsVars

MaxvolNext == MvDropZeroRows \/ MvSelectRow \/ MvArgmaxFails \/ MvInvert

SpecMaxvol == MaxvolInit /\ [][MaxvolNext]_vars

----------------------------------------------------------------------------
(* Arrays: shape plus row-major data, as numpy lays them out.              *)

\* np.ravel_multi_index / np.unravel_index (row-major)
RECURSIVE Ravel(_, _)
Ravel(idx, shape) ==
    IF shape = <<>> THEN 0
    ELSE Head(idx) * Prod(Tail(shape)) + Ravel(Tail(idx), Tail(shape))

RECURSIVE Unravel(_, _)
Unravel(flat, shape) ==
    IF shape = <<>> THEN <<>>
    ELSE <<flat \div Prod(Tail(shape))>> \o Unravel(flat % Prod(Tail(shape)), Tail(shape))

\* tl.reshape succeeds exactly when the element counts agree
CanReshape(size, shape) == size = Prod(shape)

Reshape(arr, shape) == [shape |-> shape, data |-> arr.data]

\* tl.transpose(arr, perm): axis a of the result is axis perm[a] of arr
Transpose(arr, perm) ==
    LET newshape == [a \in 1..Len(perm) |-> arr.shape[perm[a] + 1]]
        Source(idx) == [b \in 1..Len(perm) |->
                          idx[CHOOSE a \in 1..Len(perm) : perm[a] + 1 = b]]
    IN  [shape |-> newshape,
         data  |-> [f \in 1..Prod(newshape) |->
                      arr.data[Ravel(Source(Unravel(f - 1, newshape)), arr.shape) + 1]]]

At(arr, idx) == arr.data[Ravel(idx, arr.shape) + 1]

----------------------------------------------------------------------------
(* Inputs of matrix_product_state_cross.                                   *)

MaxRank == 2
MaxIter == 2

\* the tensor shapes the model is run on
Shapes == {<<2>>, <<1, 2>>, <<2, 1>>, <<2, 2>>, <<2, 1, 2>>, <<2, 2, 2>>}

MaxMode == CHOOSE x \in 1..8 : \A s \in Shapes : \A j \in DOMAIN s : s[j] <= x
MaxDim  == CHOOSE x \in 1..8 : \A s \in Shapes : Len(s) <= x

\* input_tensor = arange(prod(n)).reshape(n), as in the docstring example
TensorAt(idx) == Ravel(idx, n)

\* rank is an int or a sequence; a sequence may have the wrong length
RankArgs(dd) ==
    {[kind |-> "int", int |-> r, list |-> <<>>] : r \in 1..MaxRank}
    \cup {[kind |-> "list", int |-> 0, list |-> l] :
            l \in UNION {[1..len -> 1..MaxRank] : len \in dd..(dd + 2)}}

d == Len(n)
rk(j) == rank[j + 1]
nn(j) == n[j + 1]

Min(x, y) == IF x < y THEN x ELSE y

----------------------------------------------------------------------------
(* tl.qr followed by maxvol, as the sweep steps use them.                  *)
(* tl.qr is numpy's reduced QR: for an m x c0 matrix, Q is m x min(m, c0)  *)
(* with orthonormal columns.  Its entries are floats computed from the     *)
(* tensor's values, and which row maxvol finds largest can turn on the     *)
(* last bit of a row norm (all rows of a square Q have norm 1).  The model *)
(* does not compute Q: maxvol(Q) may return any sequence of pairwise       *)
(* distinct rows, or fail the way the exact maxvol fails on some Q with    *)
(* exact zero entries.                                                     *)

\* shape of Q for an m x c0 argument of tl.qr
QCols(m, c0) == Min(m, c0)

\* the row numbers maxvol can return for an m x c matrix: a picked row is
\* deleted from the working matrix (lines 403-410), so the picks are distinct
QPicks(m, c) ==
    {sel \in [1..c -> 0..(m - 1)] : \A a, b \in 1..c : a # b => sel[a] # sel[b]}

\* the two nonzeros of a column spread over two rows: parallel or antiparallel
ColumnPairs == {<<3, 4>>, <<4, -3>>}

\* owner[a] is the column whose nonzero row a holds (0: a zero row)
SparseOwners(m, c) ==
    {owner \in [1..m -> 0..c] :
        \A b \in 1..c : Cardinality({a \in 1..m : owner[a] = b}) \in {1, 2}}

SparseMatrix(m, c, owner, pair) ==
    [a \in 1..m |-> [b \in 1..c |->
        IF owner[a] # b THEN 0
        ELSE LET rows == {x \in 1..m : owner[x] = b}
             IN  IF Cardinality(rows) = 1 THEN 5
                 ELSE IF \A x \in rows : a <= x THEN pair[1] ELSE pair[2]]]

\* some m x c matrices a tensor's fibers can make tl.qr return, up to the
\* common factor 5 (which does not change maxvol's selection): orthogonal
\* columns of equal norm, one nonzero per row, one or two per column
SparseQ(m, c) ==
    {SparseMatrix(m, c, owner, pair) : owner \in SparseOwners(m, c), pair \in ColumnPairs}

\* the exceptions maxvol raises on those matrices
MaxvolFailures(m, c) ==
    {res \in {[status |-> maxvol(Q).status, row_idx |-> <<>>] : Q \in SparseQ(m, c)} :
        res.status # "ok"}

\* what maxvol(Q) returns to a sweep step (the selected rows) or raises
MaxvolOnQ(m, c) ==
    {[status |-> "ok", row_idx |-> sel] : sel \in QPicks(m, c)} \cup MaxvolFailures(m, c)

MaxvolResults ==
    [m \in 1..(MaxRank * MaxMode) |-> [c \in 1..Min(m, MaxRank) |-> MaxvolOnQ(m, c)]]

----------------------------------------------------------------------------
(* matrix_product_state_cross (lines 9-190).                               *)

MvIdle ==
    /\ mpc = "off" /\ A = <<>> /\ A_new = <<>> /\ rest_of_rows = <<>>
    /\ sel_idx = <<>> /\ i = 0 /\ picked = <<>>
    /\ mv_result = [status |-> "off", row_idx |-> <<>>, inverse |-> <<>>]

Init ==
    /\ MvIdle
    /\ pc = "start"
    /\ n \in Shapes
    /\ rank_arg \in RankArgs(Len(n))
    /\ n_iter_max \in 0..MaxIter
    /\ rank = <<>> /\ printed = {} /\ col_idx = <<>> /\ row_idx = <<>>
    /\ k_col_idx = 0 /\ newidx = <<>> /\ factor_new = <<>>
    /\ iter = 0 /\ started = 0 /\ loop_exit = "none" /\ cmp = "gt" /\ k = 0
    /\ outcome = "" /\ message = <<>>

\* raise: the call ends with the exception
Raise(exc) ==
    /\ pc' = "done"
    /\ outcome' = exc

\* lines 84-85: an int is broadcast to d + 1 entries
Broadcast(arg) ==
    IF arg.kind = "int" THEN [j \in 1..(d + 1) |-> arg.int] ELSE arg.list

\* line 86: the length test of the elif branch
LengthMismatch(arg) == arg.kind # "int" /\ d + 1 # Len(arg.list)

\* lines 87-88: the two numbers put into the message, in order
MismatchMessage(arg) == <<Len(arg.list), d>>

\* lines 95-103: rank[0] is set to 1; for rank[-1] only the message is printed
BoundaryRanks(r) == [r EXCEPT ![1] = 1]

BoundaryMessages(r) ==
    (IF r[1] # 1 THEN {"rank[0]"} ELSE {})
    \cup (IF BoundaryRanks(r)[Len(r)] # 1 THEN {"rank[-1]"} ELSE {})

\* [None] * d
NoneList == [j \in 1..d |-> <<>>]

\* lines 80-111: check the rank argument, normalise, start the sampling
CheckRank ==
    /\ pc = "start"
    /\ IF LengthMismatch(rank_arg)
       THEN /\ Raise("ValueError: incorrect number of ranks")
            /\ message' = MismatchMessage(rank_arg)
            /\ UNCHANGED <<rank, printed, col_idx>>
       ELSE /\ rank' = BoundaryRanks(Broadcast(rank_arg))
            /\ printed' = BoundaryMessages(Broadcast(rank_arg))
            /\ col_idx' = NoneList
            /\ pc' = IF d - 1 > 0 THEN "draw" ELSE "init"
            /\ UNCHANGED <<outcome, message>>
    /\ UNCHANGED <<n, rank_arg, row_idx, k_col_idx, newidx, factor_new, n_iter_max,
                   iter, started, loop_exit, cmp, k>>
    /\ UNCHANGED mvVars

\* the values tuple([rng.randint(n[j]) for j in range(kc + 1, d)]) can take
Candidates(kc) ==
    {v \in [1..(d - 1 - kc) -> 0..(MaxMode - 1)] :
        \A j \in 1..(d - 1 - kc) : v[j] < nn(kc + j)}

\* every multi-index any Candidates set can hold
AllMultiIndex == UNION {[1..len -> 0..(MaxMode - 1)] : len \in 0..(MaxDim - 1)}

\* lines 113 and 115: draw a candidate
Draw(v) ==
    /\ pc = "draw"
    /\ v \in Candidates(k_col_idx)
    /\ newidx' = v
    /\ pc' = "test"
    /\ UNCHANGED <<n, rank_arg, rank, printed, col_idx, row_idx, k_col_idx, factor_new,
                   n_iter_max, iter, started, loop_exit, cmp, k, outcome, message>>
    /\ UNCHANGED mvVars

\* line 114: the candidate is already in col_idx[k_col_idx]: draw again
Redraw ==
    /\ pc = "test"
    /\ newidx \in Range(col_idx[k_col_idx + 1])
    /\ pc' = "draw"
    /\ UNCHANGED <<n, rank_arg, rank, printed, col_idx, row_idx, k_col_idx, newidx,
                   factor_new, n_iter_max, iter, started, loop_exit, cmp, k, outcome,
                   message>>
    /\ UNCHANGED mvVars

\* line 117, and the two for loops of lines 110 and 112 moving on
AppendIdx ==
    /\ pc = "test"
    /\ newidx \notin Range(col_idx[k_col_idx + 1])
    /\ col_idx' = [col_idx EXCEPT ![k_col_idx + 1] = Append(@, newidx)]
    /\ IF Len(col_idx[k_col_idx + 1]) + 1 < rk(k_col_idx + 1)
       THEN pc' = "draw" /\ UNCHANGED k_col_idx
       ELSE IF k_col_idx + 1 < d - 1
            THEN pc' = "draw" /\ k_col_idx' = k_col_idx + 1
            ELSE pc' = "init" /\ UNCHANGED k_col_idx
    /\ UNCHANGED <<n, rank_arg, rank, printed, row_idx, newidx, factor_new, n_iter_max,
                   iter, started, loop_exit, cmp, k, outcome, message>>
    /\ UNCHANGED mvVars

\* the three ways error can compare with threshold
Comparisons == {"lt", "eq", "gt"}

\* line 121: the shapes of the random cores
CoreShape(j) == <<rk(j), nn(j), rk(j + 1)>>

RandomCores == [j \in 1..d |-> [shape |-> CoreShape(j - 1), data |-> <<>>]]

\* mps_to_tensor reshapes the contracted chain to the mode sizes: the chain
\* must end in a bond of size 1
ReconstructFails(cores) == cores[Len(cores)].shape[3] # 1

\* lines 119-126: the two generations and the first error / threshold.  The
\* values of the random cores are not modelled: the comparison is any of the
\* three (error = norm(new), threshold = tol * norm(new): tol against 1).
InitFactors ==
    /\ pc = "init"
    /\ factor_new' = RandomCores
    /\ IF ReconstructFails(RandomCores)
       THEN Raise("ValueError: mps_to_tensor") /\ UNCHANGED cmp
       ELSE /\ cmp' \in Comparisons
            /\ pc' = "head"
            /\ UNCHANGED outcome
    /\ UNCHANGED <<n, rank_arg, rank, printed, col_idx, row_idx, k_col_idx, newidx,
                   n_iter_max, iter, started, loop_exit, k, message>>
    /\ UNCHANGED mvVars

\* line 128: the stop test at the head of an iteration
Converged(c) == c = "lt"

\* lines 152-153, reached when the left-to-right loop is over
StartRightToLeft ==
    /\ col_idx' = [NoneList EXCEPT ![d] = <<<<>>>>]
    /\ k' = d
    /\ pc' = IF d > 1 THEN "bwd" ELSE "core0"

\* lines 127-139: the head of the for loop
LoopHead ==
    /\ pc = "head"
    /\ IF started >= n_iter_max
       THEN /\ loop_exit' = "exhausted"
            /\ pc' = "final"
            /\ UNCHANGED <<iter, started, factor_new, row_idx, col_idx, k>>
       ELSE /\ iter' = started
            /\ started' = started + 1
            /\ IF Converged(cmp)
               THEN /\ loop_exit' = "break"
                    /\ pc' = "final"
                    /\ UNCHANGED <<factor_new, row_idx, col_idx, k>>
               ELSE /\ factor_new' = [j \in 1..d |-> [shape |-> <<>>, data |-> <<>>]]
                    /\ row_idx' = << << <<>> >> >>
                    /\ UNCHANGED loop_exit
                    /\ IF d - 1 > 0
                       THEN pc' = "fwd" /\ k' = 0 /\ UNCHANGED col_idx
                       ELSE StartRightToLeft
    /\ UNCHANGED <<n, rank_arg, rank, printed, k_col_idx, newidx, n_iter_max, cmp,
                   outcome, message>>
    /\ UNCHANGED mvVars

----------------------------------------------------------------------------
(* The sweep steps (lines 193-335).                                        *)

\* the fiber loops (lines 226-229, 300-303) index rows[0..rr-1] and
\* cols[0..rc-1]: IndexError when a list is shorter
FiberIndexError(rows, cols, rr, rc) ==
    rr >= 1 /\ rc >= 1 /\ (Len(rows) < rr \/ Len(cols) < rc)

\* exception of maxvol as it leaves the sweep step
MaxvolException(status) ==
    IF status = "LinAlgError" THEN "LinAlgError" ELSE "ValueError: argmax"

\* number of entries of input_tensor[idx] in left_right_ttcross_step
\* (lines 230-242): all of mode kk for every (row pivot, column pivot) pair
LeftRightCoreSize(kk) ==
    IF kk = 0 THEN nn(0) * Len(col_idx[1])
    ELSE Len(row_idx[kk + 1]) * Len(col_idx[kk + 1]) * nn(kk)

\* the maxvol outcomes possible for the Q of the step at mode kk
LeftRightOutcomes(kk) ==
    MaxvolResults[rk(kk) * nn(kk)][QCols(rk(kk) * nn(kk), rk(kk + 1))]

\* lines 261-262: unravel the selected rows of the (rank[k] * n[k]) x rank[k+1]
\* matrix and extend the row pivots
NextRowIdx(kk, I) ==
    [a \in 1..Len(I) |->
        LET ic == Unravel(I[a], <<rk(kk), nn(kk)>>)
        IN  row_idx[kk + 1][ic[1] + 1] \o <<ic[2]>>]

\* left_right_ttcross_step(input_tensor, kk, rank, row_idx, col_idx), given
\* what maxvol(Q) does
left_right_ttcross_step(kk, res) ==
    IF FiberIndexError(row_idx[kk + 1], col_idx[kk + 1], rk(kk), rk(kk + 1))
    THEN [exc |-> "IndexError", next_row_idx |-> <<>>]
    ELSE IF ~CanReshape(LeftRightCoreSize(kk), <<rk(kk), rk(kk + 1), nn(kk)>>)
    THEN [exc |-> "ValueError: reshape", next_row_idx |-> <<>>]
    ELSE IF res.status # "ok"
    THEN [exc |-> MaxvolException(res.status), next_row_idx |-> <<>>]
    ELSE [exc |-> "", next_row_idx |-> NextRowIdx(kk, res.row_idx)]

\* lines 139-153: one pass of the left-to-right loop
LeftRight ==
    /\ pc = "fwd"
    /\ \E res \in LeftRightOutcomes(k) :
         LET step == left_right_ttcross_step(k, res)
         IN  IF step.exc # ""
             THEN Raise(step.exc) /\ UNCHANGED <<row_idx, col_idx, k>>
             ELSE /\ row_idx' = Append(row_idx, step.next_row_idx)
                  /\ UNCHANGED outcome
                  /\ IF k + 1 < d - 1
                     THEN k' = k + 1 /\ pc' = "fwd" /\ UNCHANGED col_idx
                     ELSE StartRightToLeft
    /\ UNCHANGED <<n, rank_arg, rank, printed, k_col_idx, newidx, factor_new,
                   n_iter_max, iter, started, loop_exit, cmp, message>>
    /\ UNCHANGED mvVars

\* number of entries of input_tensor[idx] in right_left_ttcross_step
\* (lines 305-316)
RightLeftCoreSize(kk) ==
    IF kk = d THEN Len(row_idx[kk]) * nn(kk - 1)
    ELSE Len(row_idx[kk]) * Len(col_idx[kk]) * nn(kk - 1)

RightLeftOutcomes(kk) ==
    MaxvolResults[nn(kk - 1) * rk(kk)][QCols(nn(kk - 1) * rk(kk), rk(kk - 1))]

\* lines 332-333: unravel the selected rows of the (n[k-1] * rank[k]) x rank[k-1]
\* matrix and extend the column pivots
NextColIdx(kk, J) ==
    [a \in 1..Len(J) |->
        LET jc == Unravel(J[a], <<nn(kk - 1), rk(kk)>>)
        IN  <<jc[1]>> \o col_idx[kk][jc[2] + 1]]

\* right_left_ttcross_step(input_tensor, kk, rank, row_idx, col_idx), given
\* what maxvol(Q) does; skeleton is the shape of Q_skeleton = Q . Q_inv
right_left_ttcross_step(kk, res) ==
    IF FiberIndexError(row_idx[kk], col_idx[kk], rk(kk - 1), rk(kk))
    THEN [exc |-> "IndexError", next_col_idx |-> <<>>, skeleton |-> <<>>]
    ELSE IF ~CanReshape(RightLeftCoreSize(kk), <<rk(kk - 1), rk(kk), nn(kk - 1)>>)
    THEN [exc |-> "ValueError: reshape", next_col_idx |-> <<>>, skeleton |-> <<>>]
    ELSE IF res.status # "ok"
    THEN [exc |-> MaxvolException(res.status), next_col_idx |-> <<>>, skeleton |-> <<>>]
    ELSE [exc |-> "",
          next_col_idx |-> NextColIdx(kk, res.row_idx),
          skeleton |-> <<nn(kk - 1) * rk(kk), QCols(nn(kk - 1) * rk(kk), rk(kk - 1))>>]

\* line 162: shape of tl.transpose(Q_skeleton)
TransposedShape(shape) == <<shape[2], shape[1]>>

\* lines 154-166: one pass of the right-to-left loop; the bare except turns a
\* failed reshape into the rank-too-large error, after line 162 has stored
\* the transposed skeleton in factor_new[k - 1]
RightLeft ==
    /\ pc = "bwd"
    /\ \E res \in RightLeftOutcomes(k) :
         LET step == right_left_ttcross_step(k, res)
         IN  IF step.exc # ""
             THEN Raise(step.exc) /\ UNCHANGED <<col_idx, factor_new, k>>
             ELSE /\ col_idx' = [col_idx EXCEPT ![k - 1] = step.next_col_idx]
                  /\ IF ~CanReshape(Prod(TransposedShape(step.skeleton)), CoreShape(k - 1))
                     THEN /\ Raise("ValueError: rank too large")
                          /\ factor_new' = [factor_new EXCEPT
                                 ![k] = [shape |-> TransposedShape(step.skeleton), data |-> <<>>]]
                          /\ UNCHANGED k
                     ELSE /\ factor_new' = [factor_new EXCEPT
                                              ![k] = [shape |-> CoreShape(k - 1), data |-> <<>>]]
                          /\ k' = k - 1
                          /\ pc' = IF k - 1 > 1 THEN "bwd" ELSE "core0"
                          /\ UNCHANGED outcome
    /\ UNCHANGED <<n, rank_arg, rank, printed, row_idx, k_col_idx, newidx, n_iter_max,
                   iter, started, loop_exit, cmp, message>>
    /\ UNCHANGED mvVars

\* tuple(zip(*col_idx[0])): one coordinate list per trailing mode
Zip(cols) ==
    IF cols = <<>> \/ Len(cols[1]) = 0 THEN <<>>
    ELSE [j \in 1..Len(cols[1]) |-> [b \in 1..Len(cols) |-> cols[b][j]]]

\* FirstCoreSlice with the two axes of the slice read in the wrong order
FirstCoreSlice_ColumnMajor ==
    LET lists == Zip(col_idx[1])
    IN  IF lists = <<>>
        THEN [shape |-> <<nn(0)>>, data |-> [f \in 1..nn(0) |-> TensorAt(<<f - 1>>)]]
        ELSE LET width == Len(lists[1])
             IN  [shape |-> <<nn(0), width>>,
                  data  |-> [f \in 1..(nn(0) * width) |->
                      LET a == (f - 1) % nn(0)
                          b == (f - 1) \div nn(0)
                      IN  TensorAt(<<a>> \o [j \in 1..Len(lists) |-> lists[j][b + 1]])]]

\* lines 169-171: input_tensor[(slice(None),) + tuple(zip(*col_idx[0]))]
FirstCoreSlice ==
    LET lists == Zip(col_idx[1])
    IN  IF lists = <<>>
        THEN [shape |-> <<nn(0)>>, data |-> [f \in 1..nn(0) |-> TensorAt(<<f - 1>>)]]
        ELSE LET width == Len(lists[1])
             IN  [shape |-> <<nn(0), width>>,
                  data  |-> [f \in 1..(nn(0) * width) |->
                      LET a == (f - 1) \div width
                          b == (f - 1) % width
                      IN  TensorAt(<<a>> \o [j \in 1..Len(lists) |-> lists[j][b + 1]])]]

\* FirstCore with the transposition of line 173 left out
FirstCore_NoTranspose(slice) == Reshape(slice, <<nn(0), 1, rk(1)>>)

\* lines 172-173: reshape to (n[0], 1, rank[1]), then axes (1, 0, 2)
FirstCore(slice) == Transpose(Reshape(slice, <<nn(0), 1, rk(1)>>), <<1, 0, 2>>)

\* lines 168-182: the first core, then error and threshold of the new
\* generation (values of the other cores are not modelled: any comparison)
Core0 ==
    /\ pc = "core0"
    /\ IF ~CanReshape(Len(FirstCoreSlice.data), <<nn(0), 1, rk(1)>>)
       THEN Raise("ValueError: reshape") /\ UNCHANGED <<factor_new, cmp>>
       ELSE /\ factor_new' = [factor_new EXCEPT ![1] = FirstCore(FirstCoreSlice)]
            /\ cmp' \in Comparisons
            /\ pc' = "head"
            /\ UNCHANGED outcome
    /\ UNCHANGED <<n, rank_arg, rank, printed, col_idx, row_idx, k_col_idx, newidx,
                   n_iter_max, iter, started, loop_exit, k, message>>
    /\ UNCHANGED mvVars

\* line 185
IterationCapHit == iter >= n_iter_max

\* lines 184-190: the checks after the loop
FinalCheck ==
    /\ pc = "final"
    /\ IF IterationCapHit THEN Raise("ValueError: max iterations")
       ELSE IF cmp = "gt" THEN Raise("ValueError: did not converge")
       ELSE Raise("returned")
    /\ UNCHANGED <<n, rank_arg, rank, printed, col_idx, row_idx, k_col_idx, newidx,
                   factor_new, n_iter_max, iter, started, loop_exit, cmp, k, message>>
    /\ UNCHANGED mvVars

Next ==
    \/ CheckRank
    \/ \E v \in AllMultiIndex : Draw(v)
    \/ Redraw
    \/ AppendIdx
    \/ InitFactors
    \/ LoopHead
    \/ LeftRight
    \/ RightLeft
    \/ Core0
    \/ FinalCheck

Spec == Init /\ [][Next]_vars

\* the random source is fair: every value it can return is returned again
\* and again; the interpreter keeps running
FairSpec ==
    /\ Init /\ [][Next]_vars
    /\ WF_vars(Next)
    /\ \A v \in AllMultiIndex : SF_vars(Draw(v))

----------------------------------------------------------------------------
(* Properties.                                                             *)

\* C1: after rank normalization the rank profile every later step uses has
\* rank[0] = 1 and rank[d] = 1, whatever the caller passed.
C1_BoundaryRanksAreOne ==
    rank # <<>> => rk(0) = 1 /\ rk(d) = 1

\* the largest bond the mode sizes support at position j: the smaller of the
\* two products of mode sizes left and right of the bond
Supported(j) ==
    Min(Prod(SubSeq(n, 1, j)), Prod(SubSeq(n, j + 1, d)))

\* boundaries are 1 and some interior rank exceeds what the mode sizes
\* support (then rank[j] > n[j] or rank[j] > n[j-1] as well)
RankUnsupported ==
    /\ rank # <<>>
    /\ rk(0) = 1 /\ rk(d) = 1
    /\ \E j \in 1..(d - 1) : rk(j) > Supported(j)

\* the retry loop of lines 114-115 can no longer exit: every value the
\* random source can return is already in col_idx[k_col_idx]
SamplingStuck ==
    /\ pc \in {"draw", "test"}
    /\ Candidates(k_col_idx) \subseteq Range(col_idx[k_col_idx + 1])

\* C2: with an interior rank larger than the mode sizes support, the call
\* does not hang, and when it ends it has raised the rank-too-large error
\* (no factors returned, no other kind of error).
C2_RankTooLargeRaised ==
    RankUnsupported =>
        /\ ~SamplingStuck
        /\ pc = "done" => outcome = "ValueError: rank too large"

\* C3: with n_iter_max >= 1, a loop that ran all its iterations without the
\* stop test succeeding at the head of one ends in the convergence error;
\* factors are returned only after the stop test succeeded.
C3_ExhaustedLoopRaises ==
    (pc = "done" /\ n_iter_max >= 1) =>
        /\ loop_exit = "exhausted" =>
               outcome \in {"ValueError: max iterations", "ValueError: did not converge"}
        /\ outcome = "returned" => loop_exit = "break"

\* C4: a rank sequence of length other than d + 1 fails at once (nothing
\* sampled, no core built) with an error naming len(rank) and d + 1; an int
\* rank never raises this error.
C4_InvalidRankSpec ==
    /\ (pc # "start" /\ rank_arg.kind = "list" /\ Len(rank_arg.list) # d + 1) =>
          /\ outcome = "ValueError: incorrect number of ranks"
          /\ message = <<Len(rank_arg.list), d + 1>>
          /\ col_idx = <<>> /\ newidx = <<>> /\ factor_new = <<>> /\ row_idx = <<>>
    /\ outcome = "ValueError: incorrect number of ranks" =>
          rank_arg.kind = "list" /\ Len(rank_arg.list) # d + 1

\* C5: whenever the call returns, the result has exactly d cores, none left
\* undefined, and core j has shape (rank[j], n[j], rank[j+1]).
C5_ReturnedCoreShapes ==
    outcome = "returned" =>
        /\ Len(factor_new) = d
        /\ \A j \in 0..(d - 1) :
              /\ factor_new[j + 1].shape # <<>>
              /\ factor_new[j + 1].shape = <<rk(j), nn(j), rk(j + 1)>>

\* a generation filled by the sweeps of a three-mode tensor is returned
C5_Witness ==
    /\ outcome = "returned"
    /\ d = 3
    /\ factor_new[1].data # <<>>
    /\ rk(1) = 2 /\ rk(2) = 2

\* core 0 of the new generation has been filled by the current iteration
FirstCoreFilled == factor_new # <<>> /\ factor_new[1].data # <<>>

\* C7: after a completed outer iteration core 0 holds tensor entries:
\* new[0][0, a, b] = tensor[(a,) + c_b], c_b the b-th column pivot of mode 0
\* left by the right-to-left sweep of that iteration.
C7_FirstCoreHoldsTensorEntries ==
    FirstCoreFilled =>
        \A a \in 0..(nn(0) - 1) : \A b \in 0..(rk(1) - 1) :
            At(factor_new[1], <<0, a, b>>) = TensorAt(<<a>> \o col_idx[1][b + 1])

\* a completed iteration on a 2 x 2 x 2 tensor with rank[1] = 2 whose two
\* column pivots differ in both coordinates
C7_Witness ==
    /\ FirstCoreFilled
    /\ n = <<2, 2, 2>> /\ rk(1) = 2
    /\ col_idx[1][1][1] # col_idx[1][2][1]
    /\ col_idx[1][1][2] # col_idx[1][2][2]

\* the row index set of mode j: rank[j] multi-indices over modes 0..j-1
WellFormedRows(j) ==
    /\ Len(row_idx[j + 1]) = rk(j)
    /\ \A t \in Range(row_idx[j + 1]) :
          Len(t) = j /\ \A x \in 1..Len(t) : t[x] \in 0..(nn(x - 1) - 1)

\* the column index set of mode j: rank[j+1] multi-indices over modes j+1..d-1
WellFormedCols(j) ==
    /\ Len(col_idx[j + 1]) = rk(j + 1)
    /\ \A t \in Range(col_idx[j + 1]) :
          Len(t) = d - 1 - j /\ \A x \in 1..Len(t) : t[x] \in 0..(nn(j + x) - 1)

\* C8: every index set handed to a sweep step is well formed: the step at
\* mode j gets rank[j] row pivots and rank[j+1] column pivots of the right
\* lengths and ranges.
C8_IndexSetsWellFormed ==
    /\ pc = "fwd" => WellFormedRows(k) /\ WellFormedCols(k)
    /\ pc = "bwd" => WellFormedRows(k - 1) /\ WellFormedCols(k - 1)

\* the picks made so far are pairwise distinct rows of A
PicksDistinct(sel) ==
    /\ \A a \in 1..Len(sel) : sel[a] \in 0..(Len(A) - 1)
    /\ \A a, b \in 1..Len(sel) : a # b => sel[a] # sel[b]

\* product of a rational matrix with an integer matrix is the identity
IsInverseOf(X, M) ==
    \A a, b \in 1..Len(M) :
        RSeqSum([c \in 1..Len(M) |-> RMul(X[a][c], RInt(M[c][b]))])
            = RInt(IF a = b THEN 1 ELSE 0)

\* C6: on a matrix of full column rank maxvol returns r pairwise distinct
\* row numbers whose rows form a nonsingular matrix, and its inverse.
C6_MaxvolSelectsNonsingular ==
    (mpc = "done" /\ FullColumnRank(A)) =>
        /\ mv_result.status = "ok"
        /\ Len(mv_result.row_idx) = Len(A[1])
        /\ PicksDistinct(mv_result.row_idx)
        /\ Det([a \in 1..Len(A[1]) |-> A[mv_result.row_idx[a] + 1]]) # 0
        /\ IsInverseOf(mv_result.inverse,
                       [a \in 1..Len(A[1]) |-> A[mv_result.row_idx[a] + 1]])

\* C9: after a selection round every remaining working row is orthogonal to
\* the row that was picked.
C9_DeflationOrthogonal ==
    (mpc = "loop" /\ picked # <<>>) =>
        \A a \in 1..Len(A_new) : RIsZero(RDot(A_new[a], picked))

\* C10: under a fair random source every call with a rank of valid length
\* and n_iter_max >= 1 terminates: it returns or raises.
C10_Terminates ==
    (~LengthMismatch(rank_arg) /\ n_iter_max >= 1) => <>(pc = "done")

============================================================================
